---- MODULE Spec2Model ----
(***************************************************************************)
(* Model of match_Excel.py: the composite-key parser, the prefix index of  *)
(* candidates, the per-job matching loop, the single-file export and the   *)
(* main() driver with its summary report.                                  *)
(*                                                                         *)
(* Strings that the program takes apart (composite keys) are sequences of  *)
(* one-character strings.  A float is an exact decimal [num, exp] meaning  *)
(* num / 10^exp, normalised so that equal values are equal records.        *)
(* A DataFrame is [columns, rows]: the ordered column names and the rows,  *)
(* each row a function from column name to value.  A dict is a sequence of *)
(* entries in insertion order (results) or a function (the prefix index,   *)
(* whose key order the program never uses).                                *)
(***************************************************************************)
EXTENDS Integers, Sequences, FiniteSets, TLC

VARIABLES
    pc,                   \* position in main() / in the parser harness
    JOBS_FILE,            \* what is at the jobs path: [exists, rows]
    CANDIDATES_FILE,      \* what is at the candidates path: [exists, rows]
    jobs_df,              \* [loaded, rows]: main's jobs_df (None when not loaded)
    candidates_df,        \* [loaded, rows]: main's candidates_df
    candidates_by_prefix, \* dict prefix -> list of {candidate_id, salary, full_row}
    results,              \* dict job_id -> entry, as a sequence in insertion order
    ci,                   \* next candidate row of the indexing loop
    ji,                   \* next job row of the matching loop
    io,                   \* what the export step met: [dir, write]
    dir_created,          \* os.makedirs(OUTPUT_DIR) succeeded in this run
    output_file,          \* [written, columns, rows]: all_job_candidate_matches.xlsx
    total_exported,       \* return value of export_to_single_excel (-1: not called)
    out,                  \* console output, one record per relevant print
    key_in,               \* parser harness: the key handed to parse_composite_key
    parsed                \* parser harness: what parse_composite_key gave

vars == <<pc, JOBS_FILE, CANDIDATES_FILE, jobs_df, candidates_df,
          candidates_by_prefix, results, ci, ji, io, dir_created, output_file,
          total_exported, out, key_in, parsed>>

(***************************************************************************)
(* Bounds.                                                                 *)
(***************************************************************************)
MaxCands == 2
MaxJobs == 2
MaxKeyLen == 7

(***************************************************************************)
(* Text helpers: str.count, str.split, str.join.                           *)
(***************************************************************************)
RECURSIVE CountChar(_, _)
CountChar(s, c) ==
    IF s = <<>> THEN 0
    ELSE (IF Head(s) = c THEN 1 ELSE 0) + CountChar(Tail(s), c)

RECURSIVE SplitFrom(_, _, _)
\* str.split(sep): cur is the token being read
SplitFrom(s, sep, cur) ==
    IF s = <<>> THEN <<cur>>
    ELSE IF Head(s) = sep THEN <<cur>> \o SplitFrom(Tail(s), sep, <<>>)
    ELSE SplitFrom(Tail(s), sep, Append(cur, Head(s)))

Split(s, sep) == SplitFrom(s, sep, <<>>)

RECURSIVE Join(_, _)
Join(parts, sep) ==
    IF parts = <<>> THEN <<>>
    ELSE IF Len(parts) = 1 THEN parts[1]
    ELSE parts[1] \o <<sep>> \o Join(Tail(parts), sep)

(***************************************************************************)
(* float(token) on plain decimal spellings: digits with at most one point  *)
(* and at least one digit ("2", "2.", ".5", "2.60").  The alphabets used   *)
(* below hold no sign, exponent, blank or letter of "inf"/"nan", so every  *)
(* other token is one float() rejects with ValueError.                     *)
(***************************************************************************)
Digits == {"0", "1", "2", "3", "4", "5", "6", "7", "8", "9"}

DigitVal(c) ==
    CASE c = "0" -> 0 [] c = "1" -> 1 [] c = "2" -> 2 [] c = "3" -> 3
      [] c = "4" -> 4 [] c = "5" -> 5 [] c = "6" -> 6 [] c = "7" -> 7
      [] c = "8" -> 8 [] c = "9" -> 9

IsFloat(tok) ==
    /\ \A k \in 1..Len(tok) : tok[k] \in Digits \cup {"."}
    /\ CountChar(tok, ".") <= 1
    /\ \E k \in 1..Len(tok) : tok[k] \in Digits

RECURSIVE DigitsValue(_, _)
\* the integer spelled by the digits of tok, points skipped
DigitsValue(tok, acc) ==
    IF tok = <<>> THEN acc
    ELSE IF Head(tok) = "." THEN DigitsValue(Tail(tok), acc)
    ELSE DigitsValue(Tail(tok), 10 * acc + DigitVal(Head(tok)))

RECURSIVE FracDigits(_)
\* how many characters follow the point (0 without a point)
FracDigits(tok) ==
    IF tok = <<>> THEN 0
    ELSE IF Head(tok) = "." THEN Len(tok) - 1
    ELSE FracDigits(Tail(tok))

RECURSIVE Normalise(_, _)
Normalise(num, exp) ==
    IF exp > 0 /\ num % 10 = 0 THEN Normalise(num \div 10, exp - 1)
    ELSE [num |-> num, exp |-> exp]

Float(tok) == Normalise(DigitsValue(tok, 0), FracDigits(tok))

RECURSIVE Pow10(_)
Pow10(n) == IF n = 0 THEN 1 ELSE 10 * Pow10(n - 1)

\* a <= b on floats
FloatLE(a, b) == a.num * Pow10(b.exp) <= b.num * Pow10(a.exp)

NoSalary == [num |-> 0, exp |-> 0]

(***************************************************************************)
(* A cell holding a key: NaN (empty cell) or a string.  str(NaN) is "nan". *)
(***************************************************************************)
StrKey(s) == [na |-> FALSE, str |-> s]
NaNKey == [na |-> TRUE, str |-> <<"n", "a", "n">>]

(***************************************************************************)
(* parse_composite_key: [ok, prefix, salary, err, exc].  Both failures     *)
(* raise ValueError (exc); err tells the two raise statements apart.       *)
(***************************************************************************)
ParseFail(e) ==
    [ok |-> FALSE, prefix |-> <<>>, salary |-> NoSalary, err |-> e,
     exc |-> "ValueError"]

\* variant: the token count tested with < 3 in place of != 3
parse_composite_key_AtLeast(key_str) ==
    IF \/ key_str.na
       \/ CountChar(key_str.str, "_") = 0
       \/ CountChar(key_str.str, "_") < 3
    THEN ParseFail("InvalidKeyFormat")
    ELSE LET parts == Split(key_str.str, "_")
             prefix == Join(SubSeq(parts, 1, 3), "_")
         IN  IF IsFloat(parts[4])
             THEN [ok |-> TRUE, prefix |-> prefix, salary |-> Float(parts[4]),
                   err |-> "none", exc |-> "none"]
             ELSE ParseFail("InvalidCeilingValue")

parse_composite_key(key_str) ==
    IF \/ key_str.na
       \/ CountChar(key_str.str, "_") = 0
       \/ CountChar(key_str.str, "_") # 3
    THEN ParseFail("InvalidKeyFormat")
    ELSE LET parts == Split(key_str.str, "_")
             prefix == Join(SubSeq(parts, 1, 3), "_")
         IN  IF IsFloat(parts[4])
             THEN [ok |-> TRUE, prefix |-> prefix, salary |-> Float(parts[4]),
                   err |-> "none", exc |-> "none"]
             ELSE ParseFail("InvalidCeilingValue")

(***************************************************************************)
(* Configuration: the column names of JOBS_COLUMNS and CANDIDATES_COLUMNS. *)
(* Rows are records over the table's columns; the composite key column is  *)
(* "composit_key" in both tables, so rows read row.composit_key.           *)
(***************************************************************************)
JOB_ID_COL == "job_id"
CANDIDATE_ID_COL == "candidate_id"
COMPOSITE_KEY_COL == "composit_key"

\* the columns of the candidates table, in file order
CandColumns == <<CANDIDATE_ID_COL, COMPOSITE_KEY_COL>>

(***************************************************************************)
(* DataFrames.                                                             *)
(***************************************************************************)
\* pd.DataFrame(): no column, no row
EmptyFrame == [columns |-> <<>>, rows |-> <<>>]

\* pd.DataFrame(list of rows of the candidates table)
FrameOfRows(rows) == [columns |-> CandColumns, rows |-> rows]

\* DataFrame.empty: some axis has length 0
IsEmptyFrame(df) == df.rows = <<>> \/ df.columns = <<>>

InSeq(x, s) == \E k \in 1..Len(s) : s[k] = x

\* df[col] = vals (one value per row): an existing column keeps its place, a
\* new one goes last
SetColumn(df, col, vals) ==
    [columns |-> IF InSeq(col, df.columns) THEN df.columns
                 ELSE Append(df.columns, col),
     rows |-> [k \in 1..Len(df.rows) |->
                  [c \in (DOMAIN df.rows[k]) \cup {col} |->
                      IF c = col THEN vals[k] ELSE df.rows[k][c]]]]

\* df[[col] + [c for c in df.columns if c != col]]
MoveFirst(df, col) ==
    [columns |-> <<col>> \o SelectSeq(df.columns, LAMBDA c : c # col),
     rows |-> df.rows]

RECURSIVE ConcatFrames(_)
\* pd.concat(frames, ignore_index=True): columns in order of first appearance,
\* rows one frame after the other
ConcatFrames(frames) ==
    IF frames = <<>> THEN EmptyFrame
    ELSE LET rest == ConcatFrames(Tail(frames))
             f == Head(frames)
         IN  [columns |-> f.columns \o
                          SelectSeq(rest.columns, LAMBDA c : ~InSeq(c, f.columns)),
              rows |-> f.rows \o rest.rows]

(***************************************************************************)
(* find_matching_candidates_for_all_jobs, first loop: one candidate row    *)
(* into the prefix lookup.  A ValueError of the parser skips the row.      *)
(***************************************************************************)
\* variant: a row whose key does not parse is filed too, under what was parsed
IndexRowNoSkip(idx, row) ==
    LET p == parse_composite_key(row.composit_key)
        item == [candidate_id |-> row.candidate_id, salary |-> p.salary,
                 full_row |-> row]
    IN  IF p.prefix \in DOMAIN idx
        THEN [idx EXCEPT ![p.prefix] = Append(@, item)]
        ELSE (p.prefix :> <<item>>) @@ idx

IndexRow(idx, row) ==
    LET p == parse_composite_key(row.composit_key)
        item == [candidate_id |-> row.candidate_id, salary |-> p.salary,
                 full_row |-> row]
    IN  IF ~p.ok THEN idx
        ELSE IF p.prefix \in DOMAIN idx
             THEN [idx EXCEPT ![p.prefix] = Append(@, item)]
             ELSE (p.prefix :> <<item>>) @@ idx

(***************************************************************************)
(* Second loop: one job row.  results[job_id] = entry keeps the position   *)
(* of a key the dict already holds and replaces its value.                 *)
(***************************************************************************)
HasKey(d, k) == \E n \in 1..Len(d) : d[n].job_id = k

DictSet(d, k, v) ==
    IF HasKey(d, k)
    THEN [n \in 1..Len(d) |-> IF d[n].job_id = k THEN v ELSE d[n]]
    ELSE Append(d, v)

\* variant: the filter with < in place of <=
FilterBucketStrict(candidate_list, target_salary) ==
    LET kept == SelectSeq(candidate_list,
                          LAMBDA cand_data : ~FloatLE(target_salary, cand_data.salary))
    IN  [k \in 1..Len(kept) |-> kept[k].full_row]

\* the ceiling filter over one bucket, bucket order kept
FilterBucket(candidate_list, target_salary) ==
    LET kept == SelectSeq(candidate_list,
                          LAMBDA cand_data : FloatLE(cand_data.salary, target_salary))
    IN  [k \in 1..Len(kept) |-> kept[k].full_row]

MatchRow(res, idx, job_row) ==
    LET job_id == job_row.job_id
        job_key == job_row.composit_key
        p == parse_composite_key(job_key)
        matches == IF p.prefix \in DOMAIN idx
                   THEN FilterBucket(idx[p.prefix], p.salary)
                   ELSE <<>>
        entry == [job_id |-> job_id,
                  job_key |-> job_key,
                  target_salary |-> p.salary,
                  matches |-> IF matches # <<>> THEN FrameOfRows(matches)
                              ELSE EmptyFrame,
                  count |-> Len(matches)]
    IN  IF ~p.ok THEN res ELSE DictSet(res, job_id, entry)

(***************************************************************************)
(* Console output: one record per print the properties read.               *)
(***************************************************************************)
Event(e, j, n) == [ev |-> e, job |-> j, n |-> n]

(***************************************************************************)
(* export_to_single_excel.                                                 *)
(***************************************************************************)
\* the value no key gives: lambda x: ... if pd.notna(x) else None
NoneSalary == [num |-> 0, exp |-> -1]

extracted_salary(row) ==
    IF ~row.composit_key.na THEN parse_composite_key(row.composit_key).salary
    ELSE NoneSalary

\* One pass of the loop body for an entry with matches.  entry: results[job_id]
\* after the pass (the body works on match_df.copy(), so it is the entry as it
\* was); frame: the object appended to all_matches_dfs as it is when the loop
\* ends: the preview's extracted_salary column is set on that same object after
\* the append.
\* variant: the body works on match_df itself, without .copy()
ExportJobNoCopy(job_id, data) ==
    LET match_df_with_job ==
            SetColumn(data.matches, JOB_ID_COL,
                      [k \in 1..Len(data.matches.rows) |-> job_id])
        reordered == MoveFirst(match_df_with_job, JOB_ID_COL)
    IN  [entry |-> [data EXCEPT !.matches = match_df_with_job],
         frame |-> SetColumn(reordered, "extracted_salary",
                             [k \in 1..Len(reordered.rows) |->
                                 extracted_salary(reordered.rows[k])])]

ExportJob(job_id, data) ==
    LET match_df_with_job ==
            SetColumn(data.matches, JOB_ID_COL,
                      [k \in 1..Len(data.matches.rows) |-> job_id])
        reordered == MoveFirst(match_df_with_job, JOB_ID_COL)
    IN  [entry |-> data,
         frame |-> SetColumn(reordered, "extracted_salary",
                             [k \in 1..Len(reordered.rows) |->
                                 extracted_salary(reordered.rows[k])])]

NoFile == [written |-> FALSE, columns |-> <<>>, rows |-> <<>>]

RECURSIVE ExportLoop(_)
\* for job_id, data in results.items(): the entries after the loop, the frames
\* collected and total_matches
ExportLoop(res) ==
    IF res = <<>> THEN [entries |-> <<>>, frames |-> <<>>, total |-> 0]
    ELSE LET data == Head(res)
             rest == ExportLoop(Tail(res))
         IN  IF ~IsEmptyFrame(data.matches)
             THEN LET one == ExportJob(data.job_id, data)
                  IN  [entries |-> <<one.entry>> \o rest.entries,
                       frames |-> <<one.frame>> \o rest.frames,
                       total |-> Len(data.matches.rows) + rest.total]
             ELSE [entries |-> <<data>> \o rest.entries,
                   frames |-> rest.frames,
                   total |-> rest.total]

\* variant: without the test of all_matches_dfs, an empty table is written
WriteCombinedAlways(all_matches_dfs, total_matches, write) ==
    LET combined_df == ConcatFrames(all_matches_dfs)
    IN  IF write = "ok"
        THEN [ret |-> total_matches,
              file |-> [written |-> TRUE, columns |-> combined_df.columns,
                        rows |-> combined_df.rows],
              attempted |-> TRUE,
              out |-> <<Event("exported", "", total_matches)>>]
        ELSE [ret |-> 0, file |-> NoFile, attempted |-> TRUE,
              out |-> <<Event("write_failed", "", 0)>>]

\* what is done once the loop has ended: the write, or "no file created"
WriteCombined(all_matches_dfs, total_matches, write) ==
    IF all_matches_dfs # <<>>
    THEN LET combined_df == ConcatFrames(all_matches_dfs)
         IN  IF write = "ok"
             THEN [ret |-> total_matches,
                   file |-> [written |-> TRUE, columns |-> combined_df.columns,
                             rows |-> combined_df.rows],
                   attempted |-> TRUE,
                   out |-> <<Event("exported", "", total_matches)>>]
             ELSE [ret |-> 0, file |-> NoFile, attempted |-> TRUE,
                   out |-> <<Event("write_failed", "", 0)>>]
    ELSE [ret |-> 0, file |-> NoFile, attempted |-> FALSE,
          out |-> <<Event("no_rows", "", 0)>>]

\* dir: "exists" (os.path.exists is true), "creatable" (os.makedirs succeeds),
\* "denied" (os.makedirs raises OSError); write: "ok" or "fail" (to_excel raises)
export_to_single_excel(res, dir, write) ==
    IF dir = "denied"
    THEN [ret |-> 0, results |-> res, created |-> FALSE, file |-> NoFile,
          attempted |-> FALSE, out |-> <<Event("mkdir_failed", "", 0)>>]
    ELSE LET loop == ExportLoop(res)
             w == WriteCombined(loop.frames, loop.total, write)
         IN  [ret |-> w.ret, results |-> loop.entries,
              created |-> (dir = "creatable"), file |-> w.file,
              attempted |-> w.attempted, out |-> w.out]

(***************************************************************************)
(* load_excel_data: (None, None) when either read raises.                  *)
(***************************************************************************)
NoneFrame == [loaded |-> FALSE, rows |-> <<>>]

\* variant: a failed read gives empty tables in place of (None, None)
load_excel_data_EmptyOnError(jobs_file, candidates_file) ==
    [jobs_df |-> [loaded |-> TRUE, rows |-> jobs_file.rows],
     candidates_df |-> [loaded |-> TRUE, rows |-> candidates_file.rows],
     out |-> IF jobs_file.exists /\ candidates_file.exists THEN <<>>
             ELSE <<Event("file_not_found", "", 0)>>]

load_excel_data(jobs_file, candidates_file) ==
    IF jobs_file.exists /\ candidates_file.exists
    THEN [jobs_df |-> [loaded |-> TRUE, rows |-> jobs_file.rows],
          candidates_df |-> [loaded |-> TRUE, rows |-> candidates_file.rows],
          out |-> <<>>]
    ELSE [jobs_df |-> NoneFrame, candidates_df |-> NoneFrame,
          out |-> <<Event("file_not_found", "", 0)>>]

(***************************************************************************)
(* main's summary report: one line per entry of results, in dict order.    *)
(***************************************************************************)
SummaryLine(data) ==
    Event(IF data.count > 0 THEN "HAS MATCHES" ELSE "NO MATCHES",
          data.job_id, data.count)

\* variant: only the entries with matches are listed
SummaryReportMatchedOnly(res) ==
    LET kept == SelectSeq(res, LAMBDA data : data.count > 0)
    IN  [n \in 1..Len(kept) |-> SummaryLine(kept[n])]

SummaryReport(res) == [n \in 1..Len(res) |-> SummaryLine(res[n])]

(***************************************************************************)
(* Inputs.  Keys are spelled out character by character.                   *)
(***************************************************************************)
Key_abc_1 == StrKey(<<"a", "_", "b", "_", "c", "_", "1">>)
Key_abc_2 == StrKey(<<"a", "_", "b", "_", "c", "_", "2">>)
Key_abc_2p0 == StrKey(<<"a", "_", "b", "_", "c", "_", "2", ".", "0">>)
Key_abd_1 == StrKey(<<"a", "_", "b", "_", "d", "_", "1">>)
Key_abc_x == StrKey(<<"a", "_", "b", "_", "c", "_", "x">>)

CandKeys == {Key_abc_1, Key_abc_2p0, Key_abd_1, Key_abc_x}
JobKeys == {Key_abc_1, Key_abc_2, Key_abd_1, NaNKey}
JobIds == {"J1", "J2"}

\* candidate tables: candidate_id is the row number
CandTables ==
    UNION {{[k \in 1..n |-> [candidate_id |-> k, composit_key |-> f[k]]] :
               f \in [1..n -> CandKeys]} : n \in 0..MaxCands}

JobTables ==
    UNION {[1..n -> [job_id : JobIds, composit_key : JobKeys]] : n \in 0..MaxJobs}

Missing == [exists |-> FALSE, rows |-> <<>>]

Files(tables) == {[exists |-> TRUE, rows |-> t] : t \in tables} \cup {Missing}

(***************************************************************************)
(* The parser harness: every key over a small alphabet, and the empty cell.*)
(***************************************************************************)
Alphabet == {"a", "_", "1", "2", "."}

AllKeys ==
    {StrKey(s) : s \in UNION {[1..n -> Alphabet] : n \in 0..MaxKeyLen}}
        \cup {NaNKey}

NotParsed ==
    [ok |-> FALSE, prefix |-> <<>>, salary |-> NoSalary, err |-> "not_called",
     exc |-> "none"]

(***************************************************************************)
(* main().                                                                 *)
(***************************************************************************)
Init ==
    /\ pc = "start"
    /\ JOBS_FILE \in Files(JobTables)
    /\ CANDIDATES_FILE \in Files(CandTables)
    /\ jobs_df = NoneFrame
    /\ candidates_df = NoneFrame
    /\ candidates_by_prefix = <<>>
    /\ results = <<>>
    /\ ci = 1
    /\ ji = 1
    /\ io = [dir |-> "not_called", write |-> "not_called"]
    /\ dir_created = FALSE
    /\ output_file = NoFile
    /\ total_exported = -1
    /\ out = <<>>
    /\ key_in = NaNKey
    /\ parsed = NotParsed

\* where main goes once the candidates' loop is over
AfterIndex(jobs) == IF jobs.rows = <<>> THEN "check" ELSE "match"

\* except ValueError: any other exception leaves the loop and main
Caught(p) == p.exc = "ValueError"

\* jobs_df, candidates_df = load_excel_data(); return when either is None
Load ==
    /\ pc = "start"
    /\ LET r == load_excel_data(JOBS_FILE, CANDIDATES_FILE)
       IN  /\ jobs_df' = r.jobs_df
           /\ candidates_df' = r.candidates_df
           /\ out' = out \o r.out
           /\ pc' = IF ~r.jobs_df.loaded \/ ~r.candidates_df.loaded THEN "done"
                    ELSE IF r.candidates_df.rows = <<>> THEN AfterIndex(r.jobs_df)
                    ELSE "index"
    /\ UNCHANGED <<JOBS_FILE, CANDIDATES_FILE, candidates_by_prefix, results, ci,
                   ji, io, dir_created, output_file, total_exported, key_in, parsed>>

\* one turn of: for _, row in candidates_df.iterrows()
IndexStep ==
    /\ pc = "index"
    /\ LET row == candidates_df.rows[ci]
           p == parse_composite_key(row.composit_key)
       IN  /\ candidates_by_prefix' = IndexRow(candidates_by_prefix, row)
           /\ out' = IF p.ok THEN out
                     ELSE Append(out, Event("skip_candidate", "", row.candidate_id))
    /\ ci' = ci + 1
    /\ pc' = IF ~parse_composite_key(candidates_df.rows[ci].composit_key).ok
                /\ ~Caught(parse_composite_key(candidates_df.rows[ci].composit_key))
             THEN "raised"
             ELSE IF ci = Len(candidates_df.rows) THEN AfterIndex(jobs_df)
             ELSE "index"
    /\ UNCHANGED <<JOBS_FILE, CANDIDATES_FILE, jobs_df, candidates_df, results, ji,
                   io, dir_created, output_file, total_exported, key_in, parsed>>

\* one turn of: for _, job_row in jobs_df.iterrows()
MatchStep ==
    /\ pc = "match"
    /\ LET job_row == jobs_df.rows[ji]
           p == parse_composite_key(job_row.composit_key)
       IN  /\ results' = MatchRow(results, candidates_by_prefix, job_row)
           /\ out' = IF p.ok THEN out
                     ELSE Append(out, Event("skip_job", job_row.job_id, 0))
    /\ ji' = ji + 1
    /\ pc' = IF ~parse_composite_key(jobs_df.rows[ji].composit_key).ok
                /\ ~Caught(parse_composite_key(jobs_df.rows[ji].composit_key))
             THEN "raised"
             ELSE IF ji = Len(jobs_df.rows) THEN "check"
             ELSE "match"
    /\ UNCHANGED <<JOBS_FILE, CANDIDATES_FILE, jobs_df, candidates_df,
                   candidates_by_prefix, ci, io, dir_created, output_file,
                   total_exported, key_in, parsed>>

\* if not results: print("No results to process"); return
NoResults ==
    /\ pc = "check"
    /\ results = <<>>
    /\ out' = Append(out, Event("no_results", "", 0))
    /\ pc' = "done"
    /\ UNCHANGED <<JOBS_FILE, CANDIDATES_FILE, jobs_df, candidates_df,
                   candidates_by_prefix, results, ci, ji, io, dir_created,
                   output_file, total_exported, key_in, parsed>>

DirStates == {"exists", "creatable", "denied"}
WriteStates == {"ok", "fail"}

\* total_exported = export_to_single_excel(results), whatever the file system does
Export ==
    /\ pc = "check"
    /\ results # <<>>
    /\ \E dir \in DirStates, write \in WriteStates :
          LET r == export_to_single_excel(results, dir, write)
          IN  /\ results' = r.results
              /\ total_exported' = r.ret
              /\ dir_created' = r.created
              /\ output_file' = r.file
              /\ io' = [dir |-> dir,
                        write |-> IF r.attempted THEN write ELSE "not_called"]
              /\ out' = out \o r.out
    /\ pc' = "summary"
    /\ UNCHANGED <<JOBS_FILE, CANDIDATES_FILE, jobs_df, candidates_df,
                   candidates_by_prefix, ci, ji, key_in, parsed>>

\* the summary report and the closing lines
Summary ==
    /\ pc = "summary"
    /\ out' = out \o SummaryReport(results)
                  \o <<Event("total_rows", "", total_exported)>>
    /\ pc' = "done"
    /\ UNCHANGED <<JOBS_FILE, CANDIDATES_FILE, jobs_df, candidates_df,
                   candidates_by_prefix, results, ci, ji, io, dir_created,
                   output_file, total_exported, key_in, parsed>>

Next == Load \/ IndexStep \/ MatchStep \/ NoResults \/ Export \/ Summary

Spec == Init /\ [][Next]_vars

(***************************************************************************)
(* The parser alone: a key is chosen, parse_composite_key is applied.      *)
(***************************************************************************)
InitParse ==
    /\ pc = "parse"
    /\ key_in \in AllKeys
    /\ parsed = NotParsed
    /\ JOBS_FILE = Missing
    /\ CANDIDATES_FILE = Missing
    /\ jobs_df = NoneFrame
    /\ candidates_df = NoneFrame
    /\ candidates_by_prefix = <<>>
    /\ results = <<>>
    /\ ci = 1
    /\ ji = 1
    /\ io = [dir |-> "not_called", write |-> "not_called"]
    /\ dir_created = FALSE
    /\ output_file = NoFile
    /\ total_exported = -1
    /\ out = <<>>

ParseKey ==
    /\ pc = "parse"
    /\ parsed' = parse_composite_key(key_in)
    /\ pc' = "parsed"
    /\ UNCHANGED <<JOBS_FILE, CANDIDATES_FILE, jobs_df, candidates_df,
                   candidates_by_prefix, results, ci, ji, io, dir_created,
                   output_file, total_exported, out, key_in>>

NextParse == ParseKey

SpecParse == InitParse /\ [][NextParse]_vars

(***************************************************************************)
(* What the properties below are stated with.                              *)
(***************************************************************************)
\* the places of the underscores of a string
UnderscoresOf(str) == {k \in 1..Len(str) : str[k] = "_"}

LastOf(S) == CHOOSE k \in S : \A m \in S : m <= k

\* a key of four underscore-separated tokens whose fourth token is a number
WellFormedKey(key) ==
    /\ ~key.na
    /\ Cardinality(UnderscoresOf(key.str)) = 3
    /\ IsFloat(SubSeq(key.str, LastOf(UnderscoresOf(key.str)) + 1, Len(key.str)))

\* the candidate rows a job key selects: same prefix, ceiling at most the job's
ExpectedMatches(job_key, cand_rows) ==
    SelectSeq(cand_rows,
              LAMBDA c : /\ parse_composite_key(c.composit_key).ok
                         /\ parse_composite_key(c.composit_key).prefix
                              = parse_composite_key(job_key).prefix
                         /\ FloatLE(parse_composite_key(c.composit_key).salary,
                                    parse_composite_key(job_key).salary))

EntryOf(d, k) == d[CHOOSE n \in 1..Len(d) : d[n].job_id = k]

ParsesOk(row) == parse_composite_key(row.composit_key).ok

(***************************************************************************)
(* C2: parse_composite_key succeeds exactly on the keys that are present,  *)
(* hold exactly three underscores and end in a numeric fourth token; on    *)
(* success the prefix is the text before the third underscore and the      *)
(* ceiling the value of the text after it; a failure is InvalidKeyFormat   *)
(* for a missing key or a wrong token count and InvalidCeilingValue for a  *)
(* non-numeric fourth token.                                               *)
(***************************************************************************)
C2_ParseContract ==
    pc = "parsed" =>
        LET str == key_in.str
            us == UnderscoresOf(str)
        IN  /\ parsed.ok <=> WellFormedKey(key_in)
            /\ parsed.ok =>
                  /\ parsed.prefix = SubSeq(str, 1, LastOf(us) - 1)
                  /\ parsed.salary = Float(SubSeq(str, LastOf(us) + 1, Len(str)))
            /\ ~parsed.ok =>
                  /\ parsed.exc = "ValueError"
                  /\ parsed.err = IF ~key_in.na /\ Cardinality(us) = 3
                                  THEN "InvalidCeilingValue"
                                  ELSE "InvalidKeyFormat"

\* a key with a non-empty first token and the ceiling 1.2 has been parsed
C2_Witness ==
    /\ pc = "parsed"
    /\ parsed.ok
    /\ parsed.salary = [num |-> 12, exp |-> 1]
    /\ parsed.prefix = <<"a", "_", "_">>

(***************************************************************************)
(* C1: when a job record whose key parses is processed, the match list     *)
(* recorded under its job_id holds exactly the candidate records whose key *)
(* parses, whose prefix equals the job's and whose ceiling is <= the job's *)
(* (equality included), in candidate-table order.                          *)
(***************************************************************************)
C1_MatchList ==
    [][(pc = "match" /\ ParsesOk(jobs_df.rows[ji])) =>
          /\ HasKey(results', jobs_df.rows[ji].job_id)
          /\ EntryOf(results', jobs_df.rows[ji].job_id).matches.rows
               = ExpectedMatches(jobs_df.rows[ji].composit_key, candidates_df.rows)]_vars

\* a job of ceiling 2 has matched a candidate of ceiling 1 and one of ceiling 2.0
C1_Witness ==
    \E n \in 1..Len(results) :
        /\ results[n].count = 2
        /\ results[n].job_key = Key_abc_2
        /\ \E k \in 1..2 : results[n].matches.rows[k].composit_key = Key_abc_2p0

(***************************************************************************)
(* C5: record-level key errors never end the batch: no exception leaves    *)
(* the loops and both loops visit every row; at every moment the index     *)
(* holds, per prefix, exactly the well-formed candidates read so far in    *)
(* table order (malformed ones are in no bucket, a prefix without a valid  *)
(* candidate has no bucket), and the job ids with a result entry are       *)
(* exactly those of the well-formed job records read so far.               *)
(***************************************************************************)
C5_RecordErrorsSkipped ==
    LET cands == SubSeq(candidates_df.rows, 1, ci - 1)
        jobs == SubSeq(jobs_df.rows, 1, ji - 1)
        goodCands == SelectSeq(cands, ParsesOk)
        prefixOf(row) == parse_composite_key(row.composit_key).prefix
    IN  /\ pc # "raised"
        /\ (pc \in {"check", "summary", "done"} /\ jobs_df.loaded) =>
              /\ ci = Len(candidates_df.rows) + 1
              /\ ji = Len(jobs_df.rows) + 1
        /\ DOMAIN candidates_by_prefix
             = {prefixOf(goodCands[k]) : k \in 1..Len(goodCands)}
        /\ \A q \in DOMAIN candidates_by_prefix :
              LET bucket == candidates_by_prefix[q]
              IN  [k \in 1..Len(bucket) |-> bucket[k].full_row]
                     = SelectSeq(goodCands, LAMBDA c : prefixOf(c) = q)
        /\ {results[n].job_id : n \in 1..Len(results)}
             = {jobs[k].job_id : k \in {m \in 1..Len(jobs) : ParsesOk(jobs[m])}}

\* both loops are over; a malformed candidate preceded a well-formed one that is
\* indexed, and a malformed job record followed a well-formed one that has an entry
C5_Witness ==
    /\ pc = "check"
    /\ Len(candidates_df.rows) = 2
    /\ ~ParsesOk(candidates_df.rows[1])
    /\ ParsesOk(candidates_df.rows[2])
    /\ Len(jobs_df.rows) = 2
    /\ ParsesOk(jobs_df.rows[1])
    /\ ~ParsesOk(jobs_df.rows[2])
    /\ Len(results) = 1
    /\ Cardinality(DOMAIN candidates_by_prefix) = 1

(***************************************************************************)
(* C3: once the jobs' loop is over, every job record whose key parses has  *)
(* its own entry in results (its key, its ceiling, its match list, its     *)
(* count), one entry per such record, also when the match list is empty.   *)
(***************************************************************************)
C3_EveryParsedJobOnce ==
    (pc \in {"check", "summary", "done"} /\ jobs_df.loaded) =>
        LET good == {k \in 1..Len(jobs_df.rows) : ParsesOk(jobs_df.rows[k])}
        IN  /\ Len(results) = Cardinality(good)
            /\ \A k \in good :
                  LET job == jobs_df.rows[k]
                      expected == ExpectedMatches(job.composit_key, candidates_df.rows)
                  IN  \E n \in 1..Len(results) :
                         /\ results[n].job_id = job.job_id
                         /\ results[n].job_key = job.composit_key
                         /\ results[n].target_salary
                              = parse_composite_key(job.composit_key).salary
                         /\ results[n].matches.rows = expected
                         /\ results[n].count = Len(expected)

(***************************************************************************)
(* C4: every row of the emitted table is the candidate's original columns  *)
(* with their values, led by one more column holding the job identifier;   *)
(* the table has no other column.                                          *)
(***************************************************************************)
C4_EmittedColumns ==
    output_file.written =>
        /\ output_file.columns = <<JOB_ID_COL>> \o CandColumns
        /\ \A k \in 1..Len(output_file.rows) :
              LET row == output_file.rows[k]
              IN  /\ DOMAIN row = {JOB_ID_COL, CANDIDATE_ID_COL, COMPOSITE_KEY_COL}
                  /\ \E n \in 1..Len(results) :
                        /\ row[JOB_ID_COL] = results[n].job_id
                        /\ \E m \in 1..Len(results[n].matches.rows) :
                              LET cand == results[n].matches.rows[m]
                              IN  /\ row[CANDIDATE_ID_COL] = cand.candidate_id
                                  /\ row[COMPOSITE_KEY_COL] = cand.composit_key

(***************************************************************************)
(* C6: when an input file is missing the run ends right after the load:    *)
(* nothing is indexed, no job is matched, no directory or file is created, *)
(* the export is not called and no summary is printed.                     *)
(***************************************************************************)
C6_MissingInputAborts ==
    (pc # "start" /\ (~JOBS_FILE.exists \/ ~CANDIDATES_FILE.exists)) =>
        /\ pc = "done"
        /\ candidates_by_prefix = <<>>
        /\ results = <<>>
        /\ ci = 1
        /\ ji = 1
        /\ ~dir_created
        /\ ~output_file.written
        /\ total_exported = -1
        /\ out = <<Event("file_not_found", "", 0)>>

\* a run has ended on a missing candidates file while the jobs file held rows
C6_Witness ==
    /\ pc = "done"
    /\ JOBS_FILE.exists
    /\ Len(JOBS_FILE.rows) = 2
    /\ ~CANDIDATES_FILE.exists

(***************************************************************************)
(* C7: an export that cannot create the output directory or cannot write   *)
(* the file ends with the error printed, returns 0 to main, leaves no      *)
(* file, and leaves the results mapping exactly as it was before the call. *)
(***************************************************************************)
C7_ExportFailureKeepsResults ==
    [][(pc = "check" /\ pc' = "summary"
          /\ (io'.dir = "denied" \/ io'.write = "fail")) =>
          /\ results' = results
          /\ total_exported' = 0
          /\ ~output_file'.written
          /\ out' = Append(out, Event(IF io'.dir = "denied" THEN "mkdir_failed"
                                      ELSE "write_failed", "", 0))]_vars

\* the write of a table with rows has failed
C7_Witness ==
    /\ pc = "summary"
    /\ io.write = "fail"
    /\ \E n \in 1..Len(results) : results[n].count = 2

(***************************************************************************)
(* C8: the emitted rows are, job record after job record in the order the  *)
(* records were processed, each record's matching candidates in index      *)
(* order; a job without matches gives no row.                              *)
(***************************************************************************)
RECURSIVE ExpectedRows(_, _)
ExpectedRows(job_rows, cand_rows) ==
    IF job_rows = <<>> THEN <<>>
    ELSE LET job == Head(job_rows)
             ms == IF ParsesOk(job)
                   THEN ExpectedMatches(job.composit_key, cand_rows)
                   ELSE <<>>
         IN  [k \in 1..Len(ms) |-> <<job.job_id, ms[k].candidate_id>>]
                \o ExpectedRows(Tail(job_rows), cand_rows)

C8_RowsInJobOrder ==
    output_file.written =>
        [k \in 1..Len(output_file.rows) |->
            <<output_file.rows[k][JOB_ID_COL], output_file.rows[k][CANDIDATE_ID_COL]>>]
          = ExpectedRows(jobs_df.rows, candidates_df.rows)

(***************************************************************************)
(* C9 as stated: every run whose inputs load ends with a summary that      *)
(* lists every job of the jobs table.                                      *)
(***************************************************************************)
SummaryLines(o) == SelectSeq(o, LAMBDA e : e.ev \in {"HAS MATCHES", "NO MATCHES"})

C9_SummaryListsEveryJob ==
    (pc = "done" /\ jobs_df.loaded) =>
        /\ out # <<>>
        /\ out[Len(out)].ev = "total_rows"
        /\ \A k \in 1..Len(jobs_df.rows) :
              \E n \in 1..Len(SummaryLines(out)) :
                  SummaryLines(out)[n].job = jobs_df.rows[k].job_id

(***************************************************************************)
(* C9 amended: a run whose inputs load and whose results mapping is not    *)
(* empty ends with a summary of one line per entry of results, in mapping  *)
(* order, with the entry's count and NO MATCHES for a count of 0, whatever *)
(* the export did; a run whose results mapping is empty ends with "No      *)
(* results to process" and no summary line.                                *)
(***************************************************************************)
C9_SummaryListsResults ==
    (pc = "done" /\ jobs_df.loaded) =>
        /\ out # <<>>
        /\ IF results = <<>>
           THEN /\ out[Len(out)].ev = "no_results"
                /\ SummaryLines(out) = <<>>
           ELSE /\ out[Len(out)] = Event("total_rows", "", total_exported)
                /\ SummaryLines(out)
                     = [n \in 1..Len(results) |->
                           Event(IF results[n].count > 0 THEN "HAS MATCHES"
                                 ELSE "NO MATCHES",
                                 results[n].job_id, results[n].count)]

\* a run has ended after a failed write, with a job that has matches and a job
\* that has none
C9_Witness ==
    /\ pc = "done"
    /\ io.write = "fail"
    /\ Len(results) = 2
    /\ results[1].count = 0
    /\ results[2].count > 0

(***************************************************************************)
(* C10: when no entry of results has a match, the export returns 0, says   *)
(* that no file is created (when it got as far as the directory allows)    *)
(* and writes no file, not even one of headers only.                       *)
(***************************************************************************)
C10_NoRowsNoFile ==
    (pc \in {"summary", "done"} /\ results # <<>>
       /\ \A n \in 1..Len(results) : IsEmptyFrame(results[n].matches)) =>
        /\ total_exported = 0
        /\ output_file = NoFile
        /\ io.write = "not_called"
        /\ io.dir # "denied" =>
              \E k \in 1..Len(out) : out[k] = Event("no_rows", "", 0)

\* the export ran on two entries without matches and created the directory
C10_Witness ==
    /\ pc = "summary"
    /\ Len(results) = 2
    /\ \A n \in 1..Len(results) : results[n].count = 0
    /\ dir_created
    /\ out[Len(out)].ev = "no_rows"

====
